---- MODULE Spec2Model ----
(***************************************************************************)
(* dev-server (src/src/main.rs): an HTTP development server that mirrors   *)
(* every inbound request to the configured proxy destinations, answers     *)
(* with the first upstream response select_all hands back, and falls back  *)
(* to a default response when no destination answers.                      *)
(*                                                                         *)
(* Representation.  Option<T> is a sequence of length 0 (None) or 1        *)
(* (Some).  A String is its UTF-8 byte sequence, except the destination    *)
(* and listen-address strings, which are atoms looked up in the parse      *)
(* tables below.  A Response is [status, headers, body]; headers are a set *)
(* of <<name, value>> pairs.                                               *)
(***************************************************************************)
EXTENDS Integers, Sequences, FiniteSets, TLC

\* ---------------------------------------------------------------- bounds
MaxDest == 2
NumRequests == 2
TickStep == 30
MaxTime == 45

\* ------------------------------------------------------- program constants
timeout_duration == 30
STATUS_OK == 200

None == <<>>
Some(x) == <<x>>
IsSome(o) == Len(o) = 1
Unwrap(o) == o[1]

Requests == 1..NumRequests

\* "Default Server Response"
DEFAULT_SERVER_RESPONSE ==
    <<68,101,102,97,117,108,116,32,83,101,114,118,101,114,32,
      82,101,115,112,111,110,115,101>>

\* "Invalid UTF-8 in request body"
INVALID_UTF8_BODY ==
    <<73,110,118,97,108,105,100,32,85,84,70,45,56,32,105,110,32,
      114,101,113,117,101,115,116,32,98,111,100,121>>

\* ------------------------------------------------------------ UTF-8 check
IsContinuation(b) == b >= 128 /\ b <= 191

\* Faulty variant: the lead byte alone decides, continuation bytes are not
\* looked at.
Utf8SeqLenLax(bs) ==
    LET b == bs[1] IN
    IF b < 128 THEN 1
    ELSE IF b >= 192 /\ b <= 223 THEN 2
    ELSE IF b >= 224 /\ b <= 239 THEN 3
    ELSE 4

\* Number of bytes of the UTF-8 sequence that starts bs, 0 when bs does not
\* start with a well-formed sequence (what String::from_utf8 rejects).
Utf8SeqLen(bs) ==
    LET b == bs[1]
        n == Len(bs)
    IN  IF b < 128 THEN 1
        ELSE IF b >= 194 /\ b <= 223
             THEN IF n >= 2 /\ IsContinuation(bs[2]) THEN 2 ELSE 0
        ELSE IF b >= 224 /\ b <= 239
             THEN IF /\ n >= 3
                     /\ IsContinuation(bs[2])
                     /\ IsContinuation(bs[3])
                     /\ (b = 224 => bs[2] >= 160)
                     /\ (b = 237 => bs[2] <= 159)
                  THEN 3 ELSE 0
        ELSE IF b >= 240 /\ b <= 244
             THEN IF /\ n >= 4
                     /\ IsContinuation(bs[2])
                     /\ IsContinuation(bs[3])
                     /\ IsContinuation(bs[4])
                     /\ (b = 240 => bs[2] >= 144)
                     /\ (b = 244 => bs[2] <= 143)
                  THEN 4 ELSE 0
        ELSE 0

RECURSIVE IsValidUtf8(_)
IsValidUtf8(bs) ==
    IF bs = <<>> THEN TRUE
    ELSE LET k == Utf8SeqLen(bs) IN
         IF k = 0 \/ k > Len(bs) THEN FALSE
         ELSE IsValidUtf8(SubSeq(bs, k + 1, Len(bs)))

\* ------------------------------------------------------------ URI parsing
\* The strings that can be given as proxy destinations in this model.
DestStrings == {"", "http://a", "b:8080", "/nohost", "not a uri"}

\* proxy.parse::<hyper::Uri>(): None when the string is no URI, else the
\* parsed [scheme, authority] (each an Option).
ParseUri(s) ==
    CASE s = "http://a"  -> Some([scheme |-> Some("http"), authority |-> Some("a")])
      [] s = "b:8080"    -> Some([scheme |-> None, authority |-> Some("b:8080")])
      [] s = "/nohost"   -> Some([scheme |-> None, authority |-> None])
      [] OTHER           -> None

\* Listen addresses: parse::<SocketAddr>() succeeds on "127.0.0.1:8080" only.
ListenStrings == {"127.0.0.1:8080", "localhost"}
ParsesAsSocketAddr(s) == s = "127.0.0.1:8080"


\* ------------------------------------------------------------------ state
VARIABLES
    mainpc,      \* main(): "start", "serving" or "panicked"
    args,        \* the command line (Opt) and the parsed configuration file
    config,      \* the Config main() resolves; read-only afterwards
    log,         \* lines written through info!/warn!
    now,         \* the clock the tokio timers read
    inbound,     \* the requests the clients send in this run
    pc,          \* per request: where its handler future stands
    req,         \* per request: Option<inbound request>
    sent,        \* per request: the outbound requests issued, by attempt
    arrived,     \* per request, per attempt: Option<Result<Response, Error>>
    deadline,    \* per request, per attempt: deadline of its timeout()
    futures,     \* per request: the Vec of attempts select_all waits on
    polled,      \* per request: the results select_all handed back, in order
    winner,      \* per request: Option<the response whose body is buffered>
    response,    \* per request: the Responses returned to hyper, in order
    startedAt,   \* per request: Option<time the attempts were created>
    answeredAt   \* per request: Option<time the Response was returned>

mainVars == <<mainpc, args, config, inbound>>
reqVars == <<pc, req, sent, arrived, deadline, futures, polled, winner,
             response, startedAt, answeredAt>>
vars == <<mainpc, args, config, log, now, inbound, pc, req, sent, arrived,
          deadline, futures, polled, winner, response, startedAt, answeredAt>>

\* ------------------------------------------------------------------ main()
NoConfig ==
    [listen_address |-> None, proxy_destinations |-> None,
     default_response |-> None]

\* Faulty variant: empty entries are kept.
RetainAll(v) == v

\* proxy_destinations_vec.retain(|proxy| !proxy.is_empty() && proxy != "")
Retain(v) == SelectSeq(v, LAMBDA proxy : proxy # "")

\* The block that builds `config` from the command line and the file.
ResolveConfig(a) ==
    LET c0 == a.file
        c1 == IF IsSome(a.listen)
              THEN [c0 EXCEPT !.listen_address = a.listen] ELSE c0
        c2 == IF a.proxy # <<>>
              THEN [c1 EXCEPT !.proxy_destinations = Some(a.proxy)] ELSE c1
        c3 == IF IsSome(c2.proxy_destinations)
              THEN LET v == Retain(Unwrap(c2.proxy_destinations)) IN
                   IF Len(v) = 0
                   THEN [c2 EXCEPT !.proxy_destinations = None]
                   ELSE [c2 EXCEPT !.proxy_destinations = Some(v)]
              ELSE c2
    IN  IF IsSome(a.default_response)
        THEN [c3 EXCEPT !.default_response = a.default_response]
        ELSE [c3 EXCEPT !.default_response = Some(DEFAULT_SERVER_RESPONSE)]

LogLine(id, level, event) == [id |-> id, level |-> level, event |-> event]

\* main() up to the point where the server accepts connections.  The two
\* unwrap()s of listen_address and the parse of the listen address panic.
Main ==
    /\ mainpc = "start"
    /\ LET c == ResolveConfig(args) IN
       /\ config' = c
       /\ IF ~IsSome(c.listen_address)
          THEN /\ mainpc' = "panicked"
               /\ log' = log
          ELSE IF ~ParsesAsSocketAddr(Unwrap(c.listen_address))
          THEN /\ mainpc' = "panicked"
               /\ log' = Append(log, LogLine(None, "info", "Starting server"))
          ELSE /\ mainpc' = "serving"
               /\ log' = log \o <<LogLine(None, "info", "Starting server"),
                                  LogLine(None, "info", "Server running")>>
    /\ UNCHANGED <<args, inbound, now>>
    /\ UNCHANGED reqVars


\* -------------------------------------------------------- request handler
\* Inbound requests of this model: one method and header set, a request
\* target in origin form ("/p?q=1") or in absolute form
\* ("http://client.example/p?q=1"), and a body that is valid UTF-8 ("é") or
\* not (0xC3 followed by "(").
InboundBodies == {<<195, 169>>, <<195, 40>>}

InboundUris ==
    { [scheme |-> None, authority |-> None, path_and_query |-> "/p?q=1"],
      [scheme |-> Some("http"), authority |-> Some("client.example"),
       path_and_query |-> "/p?q=1"] }

InboundRequest(uri, body) ==
    [method |-> "POST", uri |-> uri, version |-> "HTTP/1.1",
     headers |-> {<<"host", "client.example">>}, body |-> body]

\* Display of a hyper::Uri, as the pieces of the string it writes.
UriDisplay(uri) ==
    IF IsSome(uri.scheme)
    THEN <<Unwrap(uri.scheme), "://", Unwrap(uri.authority), uri.path_and_query>>
    ELSE <<uri.path_and_query>>

\* What an upstream can answer: status, headers and the body it streams.
UpstreamResponses ==
    { [status |-> 200, headers |-> {<<"content-type", "text/plain">>},
       body |-> <<65>>],
      [status |-> 503, headers |-> {}, body |-> <<66>>],
      [status |-> 200, headers |-> {<<"content-type", "text/plain">>},
       body |-> <<195>>] }

\* Faulty variant: the locally built responses go out as 502 Bad Gateway.
ResponseNewBadGateway(body) == [status |-> 502, headers |-> {}, body |-> body]

\* Response::new(Body::from(text)): status 200, no headers.
ResponseNew(body) == [status |-> STATUS_OK, headers |-> {}, body |-> body]

\* Faulty variant: the upstream status is not carried over.
BuildResponseDefaultStatus(upstream, body_bytes) ==
    [status |-> STATUS_OK, headers |-> {}, body |-> body_bytes]

\* Response::builder().status(status).body(Body::from(body_bytes)): the
\* upstream headers are read for the log line only.
BuildResponse(upstream, body_bytes) ==
    [status |-> upstream.status, headers |-> {}, body |-> body_bytes]

\* The pieces URI strings are made of: whether a piece holds a '/', and the
\* number of ':' it holds before its first '/'.
HasSlash(piece) == piece \in {"://", "/p?q=1"}

ColonsBeforeSlash(piece) == IF piece \in {"://", "b:8080"} THEN 1 ELSE 0

\* Number of ':' in the authority a string starts with: the authority ends
\* at the first '/'.
RECURSIVE AuthorityColons(_)
AuthorityColons(pieces) ==
    IF pieces = <<>> THEN 0
    ELSE ColonsBeforeSlash(Head(pieces))
         + (IF HasSlash(Head(pieces)) THEN 0 ELSE AuthorityColons(Tail(pieces)))

\* Request::builder().uri(absolute_uri): the string, given as scheme, "://"
\* and the rest, is a URI unless its authority holds more than one ':'.
BuilderAcceptsUri(absolute_uri) ==
    AuthorityColons(SubSeq(absolute_uri, 3, Len(absolute_uri))) <= 1

\* The outbound request the closure of the map() builds for one destination:
\* None where proxy.parse().expect(..), authority().unwrap() or
\* Request::builder()...expect(..) panics.  The URI is the string
\* format!("{}://{}{}", scheme, authority, uri) writes, as its pieces; uri is
\* the whole inbound req.uri().
BuildRequest(proxy, rq, body_str) ==
    LET parsed == ParseUri(proxy) IN
    IF ~IsSome(parsed) THEN None
    ELSE LET proxy_uri == Unwrap(parsed) IN
         IF ~IsSome(proxy_uri.authority) THEN None
         ELSE LET absolute_uri ==
                      << IF IsSome(proxy_uri.scheme)
                         THEN Unwrap(proxy_uri.scheme) ELSE "http",
                         "://", Unwrap(proxy_uri.authority) >>
                      \o UriDisplay(rq.uri)
              IN
              IF ~BuilderAcceptsUri(absolute_uri) THEN None
              ELSE Some([method |-> rq.method,
                         uri |-> absolute_uri,
                         version |-> rq.version,
                         headers |-> rq.headers,
                         body |-> body_str])

\* Faulty variant: the timers run one after the other.
AttemptDeadlineChained(i, t) == t + i * timeout_duration

\* timeout(timeout_duration, ..): every attempt gets its own timer, all of
\* them started when the attempts are created.
AttemptDeadline(i, t) == t + timeout_duration

\* Faulty variant: every handler reads the answers that came in for the
\* attempts of request 1, as if the attempts were shared between requests.
PollAttemptShared(r, i) ==
    IF i \in 1..Len(arrived[1]) /\ IsSome(arrived[1][i])
    THEN IF Unwrap(arrived[1][i]).ok
         THEN [kind |-> "Ok(Ok)", resp |-> Unwrap(arrived[1][i]).resp]
         ELSE [kind |-> "Ok(Err)", resp |-> None]
    ELSE IF now >= deadline[r][i]
         THEN [kind |-> "Err(Elapsed)", resp |-> None]
         ELSE [kind |-> "pending", resp |-> None]

\* Faulty variant: only an upstream status below 400 counts as a success.
PollAttemptSuccessStatus(r, i) ==
    IF IsSome(arrived[r][i])
    THEN IF Unwrap(arrived[r][i]).ok
            /\ Unwrap(Unwrap(arrived[r][i]).resp).status < 400
         THEN [kind |-> "Ok(Ok)", resp |-> Unwrap(arrived[r][i]).resp]
         ELSE [kind |-> "Ok(Err)", resp |-> None]
    ELSE IF now >= deadline[r][i]
         THEN [kind |-> "Err(Elapsed)", resp |-> None]
         ELSE [kind |-> "pending", resp |-> None]

\* Poll of one timeout-wrapped attempt: the inner future first, then the
\* timer.  kind "pending" is Poll::Pending.
PollAttempt(r, i) ==
    IF IsSome(arrived[r][i])
    THEN IF Unwrap(arrived[r][i]).ok
         THEN [kind |-> "Ok(Ok)", resp |-> Unwrap(arrived[r][i]).resp]
         ELSE [kind |-> "Ok(Err)", resp |-> None]
    ELSE IF now >= deadline[r][i]
         THEN [kind |-> "Err(Elapsed)", resp |-> None]
         ELSE [kind |-> "pending", resp |-> None]

ReadyAt(r) ==
    {k \in 1..Len(futures[r]) : PollAttempt(r, futures[r][k]).kind # "pending"}

\* select_all polls the futures in Vec order and returns the first ready one.
FirstReady(r) == CHOOSE k \in ReadyAt(r) : \A j \in ReadyAt(r) : k <= j

\* Faulty variant: the last future is dropped, whichever one was ready.
SwapRemoveLast(v, k) == SubSeq(v, 1, Len(v) - 1)

\* Vec::swap_remove(k): the last element takes the place of the removed one.
SwapRemove(v, k) ==
    [j \in 1..(Len(v) - 1) |-> IF j = k THEN v[Len(v)] ELSE v[j]]

Racing(r) == pc[r] = "select_all"

Finished(r) == pc[r] \in {"done", "err", "panicked"}


\* A client sends request r; the handler future starts and awaits the body.
ArriveRequest(r, uri, body) ==
    /\ mainpc = "serving"
    /\ r \in inbound
    /\ pc[r] = "idle"
    /\ pc' = [pc EXCEPT ![r] = "to_bytes_req"]
    /\ req' = [req EXCEPT ![r] = Some(InboundRequest(uri, body))]
    /\ UNCHANGED <<mainVars, log, now, sent, arrived, deadline, futures,
                   polled, winner, response, startedAt, answeredAt>>

\* to_bytes(req.body_mut()).await? fails: the handler returns Err.
RequestBodyError(r) ==
    /\ pc[r] = "to_bytes_req"
    /\ pc' = [pc EXCEPT ![r] = "err"]
    /\ UNCHANGED <<mainVars, log, now, req, sent, arrived, deadline, futures,
                   polled, winner, response, startedAt, answeredAt>>

\* The handler returns Ok(resp).
Return(r, resp) ==
    /\ pc' = [pc EXCEPT ![r] = "done"]
    /\ response' = [response EXCEPT ![r] = Append(@, resp)]
    /\ answeredAt' = [answeredAt EXCEPT ![r] = Some(now)]
    /\ futures' = [futures EXCEPT ![r] = <<>>]

\* The handler panics.
Panic(r) ==
    /\ pc' = [pc EXCEPT ![r] = "panicked"]
    /\ futures' = [futures EXCEPT ![r] = <<>>]
    /\ UNCHANGED <<response, answeredAt>>

\* The inbound body is buffered: UTF-8 check, ingress log line, then either
\* the default response (no destinations) or the attempts are built and
\* select_all polls them for the first time.
HandleRequest(r) ==
    /\ pc[r] = "to_bytes_req"
    /\ LET rq == Unwrap(req[r])
           whole_body == rq.body
           ingress == Append(log, LogLine(Some(r), "info", "New Request"))
       IN
       IF ~IsValidUtf8(whole_body)
       THEN /\ Return(r, ResponseNew(INVALID_UTF8_BODY))
            /\ UNCHANGED <<log, sent, arrived, deadline, startedAt>>
       ELSE IF ~IsSome(config.proxy_destinations)
       THEN /\ Return(r, ResponseNew(Unwrap(config.default_response)))
            /\ log' = ingress
            /\ UNCHANGED <<sent, arrived, deadline, startedAt>>
       ELSE LET dests == Unwrap(config.proxy_destinations)
                n == Len(dests)
                built == [i \in 1..n |-> BuildRequest(dests[i], rq, whole_body)]
            IN
            IF \E i \in 1..n : ~IsSome(built[i])
            THEN /\ Panic(r)
                 /\ log' = ingress
                 /\ UNCHANGED <<sent, arrived, deadline, startedAt>>
            ELSE IF n = 0
            THEN /\ Return(r, ResponseNew(Unwrap(config.default_response)))
                 /\ log' = Append(ingress,
                        LogLine(None, "warn", "Returning default response"))
                 /\ UNCHANGED <<sent, arrived, deadline, startedAt>>
            ELSE /\ pc' = [pc EXCEPT ![r] = "select_all"]
                 /\ sent' = [sent EXCEPT ![r] = [i \in 1..n |-> Unwrap(built[i])]]
                 /\ arrived' = [arrived EXCEPT ![r] = [i \in 1..n |-> None]]
                 /\ deadline' = [deadline EXCEPT ![r] =
                                   [i \in 1..n |-> AttemptDeadline(i, now)]]
                 /\ futures' = [futures EXCEPT ![r] = [i \in 1..n |-> i]]
                 /\ startedAt' = [startedAt EXCEPT ![r] = Some(now)]
                 /\ log' = ingress
                 /\ UNCHANGED <<response, answeredAt>>
    /\ UNCHANGED <<mainVars, now, req, polled, winner>>

\* The upstream of attempt i of request r answers (status line and headers).
UpstreamRespond(r, i, up) ==
    /\ i \in 1..Len(arrived[r])
    /\ ~IsSome(arrived[r][i])
    /\ arrived' = [arrived EXCEPT ![r][i] = Some([ok |-> TRUE, resp |-> Some(up)])]
    /\ UNCHANGED <<mainVars, log, now, pc, req, sent, deadline, futures,
                   polled, winner, response, startedAt, answeredAt>>

\* The exchange of attempt i of request r fails in the transport.
UpstreamFail(r, i) ==
    /\ i \in 1..Len(arrived[r])
    /\ ~IsSome(arrived[r][i])
    /\ arrived' = [arrived EXCEPT ![r][i] = Some([ok |-> FALSE, resp |-> None])]
    /\ UNCHANGED <<mainVars, log, now, pc, req, sent, deadline, futures,
                   polled, winner, response, startedAt, answeredAt>>

\* One turn of the while loop: select_all hands back the first ready attempt.
SelectAll(r) ==
    /\ Racing(r)
    /\ ReadyAt(r) # {}
    /\ LET k == FirstReady(r)
           i == futures[r][k]
           result == PollAttempt(r, i)
           remaining_futures == SwapRemove(futures[r], k)
       IN
       /\ polled' = [polled EXCEPT ![r] =
                        Append(@, [attempt |-> i, kind |-> result.kind])]
       /\ IF result.kind = "Ok(Ok)"
          THEN /\ pc' = [pc EXCEPT ![r] = "to_bytes_resp"]
               /\ winner' = [winner EXCEPT ![r] = result.resp]
               /\ futures' = [futures EXCEPT ![r] = remaining_futures]
               /\ UNCHANGED <<log, response, answeredAt>>
          ELSE LET warned == Append(log, LogLine(None, "warn",
                                 IF result.kind = "Ok(Err)"
                                 THEN "Proxy request failed"
                                 ELSE "Proxy request timed out"))
               IN
               IF remaining_futures = <<>>
               THEN /\ Return(r, ResponseNew(Unwrap(config.default_response)))
                    /\ log' = Append(warned,
                           LogLine(None, "warn", "Returning default response"))
                    /\ UNCHANGED winner
               ELSE /\ futures' = [futures EXCEPT ![r] = remaining_futures]
                    /\ log' = warned
                    /\ UNCHANGED <<pc, winner, response, answeredAt>>
    /\ UNCHANGED <<mainVars, now, req, sent, arrived, deadline, startedAt>>

\* Faulty variant: the winning body is passed on without the UTF-8 check.
ResponseBodyBufferedUnchecked(r) ==
    /\ pc[r] = "to_bytes_resp"
    /\ Return(r, BuildResponse(Unwrap(winner[r]), Unwrap(winner[r]).body))
    /\ log' = Append(log, LogLine(Some(r), "info", "Got Response"))
    /\ UNCHANGED <<mainVars, now, req, sent, arrived, deadline, polled,
                   winner, startedAt>>

\* to_bytes(response.body_mut()).await completes: the winning body is
\* checked as UTF-8 (expect), logged, and the Response is built and returned.
ResponseBodyBuffered(r) ==
    /\ pc[r] = "to_bytes_resp"
    /\ LET upstream == Unwrap(winner[r])
           body_bytes == upstream.body
       IN
       IF ~IsValidUtf8(body_bytes)
       THEN /\ Panic(r)
            /\ UNCHANGED log
       ELSE /\ Return(r, BuildResponse(upstream, body_bytes))
            /\ log' = Append(log, LogLine(Some(r), "info", "Got Response"))
    /\ UNCHANGED <<mainVars, now, req, sent, arrived, deadline, polled,
                   winner, startedAt>>

\* to_bytes(response.body_mut()).await? fails: the handler returns Err.
ResponseBodyError(r) ==
    /\ pc[r] = "to_bytes_resp"
    /\ pc' = [pc EXCEPT ![r] = "err"]
    /\ futures' = [futures EXCEPT ![r] = <<>>]
    /\ UNCHANGED <<mainVars, log, now, req, sent, arrived, deadline, polled,
                   winner, response, startedAt, answeredAt>>

\* Time passes, up to the next timer of an attempt that is still waited on.
\* A handler whose select_all has a ready attempt runs before the clock moves.
\* The clock of a run is followed up to MaxTime and, beyond it, for as long
\* as a timer is waited on.
PendingDeadlines ==
    UNION {{deadline[r][futures[r][k]] : k \in 1..Len(futures[r])} :
           r \in {q \in Requests : Racing(q)}}

Min(S) == CHOOSE x \in S : \A y \in S : x <= y

Tick ==
    /\ now < MaxTime \/ PendingDeadlines # {}
    /\ \A r \in Requests : Racing(r) => ReadyAt(r) = {}
    /\ now' = Min(PendingDeadlines \cup {now + TickStep})
    /\ UNCHANGED <<mainVars, log>>
    /\ UNCHANGED reqVars

\* ------------------------------------------------------------------- runs
\* Command lines of the race runs: a listen address or none, any list of at
\* most MaxDest destinations, a default response or none; no file settings.
BoundedSeq(S, n) == UNION {[1..m -> S] : m \in 0..n}

CUSTOM_DEFAULT == <<102, 97, 108, 108, 98, 97, 99, 107>>   \* "fallback"

RaceArgs ==
    [listen : {None, Some("127.0.0.1:8080")},
     proxy : BoundedSeq(DestStrings, MaxDest),
     default_response : {None, Some(CUSTOM_DEFAULT)},
     file : {NoConfig}]

InitState ==
    /\ mainpc = "start"
    /\ config = NoConfig
    /\ log = <<>>
    /\ now = 0
    /\ pc = [r \in Requests |-> "idle"]
    /\ req = [r \in Requests |-> None]
    /\ sent = [r \in Requests |-> <<>>]
    /\ arrived = [r \in Requests |-> <<>>]
    /\ deadline = [r \in Requests |-> <<>>]
    /\ futures = [r \in Requests |-> <<>>]
    /\ polled = [r \in Requests |-> <<>>]
    /\ winner = [r \in Requests |-> None]
    /\ response = [r \in Requests |-> <<>>]
    /\ startedAt = [r \in Requests |-> None]
    /\ answeredAt = [r \in Requests |-> None]

Init ==
    /\ InitState
    /\ args \in RaceArgs
    /\ inbound = {1}

Next ==
    \/ Main
    \/ \E r \in Requests, uri \in InboundUris, body \in InboundBodies :
          ArriveRequest(r, uri, body)
    \/ \E r \in Requests : RequestBodyError(r)
    \/ \E r \in Requests : HandleRequest(r)
    \/ \E r \in Requests, i \in 1..(MaxDest + 1), up \in UpstreamResponses :
          UpstreamRespond(r, i, up)
    \/ \E r \in Requests, i \in 1..(MaxDest + 1) : UpstreamFail(r, i)
    \/ \E r \in Requests : SelectAll(r)
    \/ \E r \in Requests : ResponseBodyBuffered(r)
    \/ \E r \in Requests : ResponseBodyError(r)
    \/ Tick

Spec == Init /\ [][Next]_vars


\* Start-up runs: command lines and configuration files of every shape, no
\* request.
FILE_DEFAULT == <<102, 114, 111, 109, 32, 102, 105, 108, 101>>   \* "from file"

FileConfigs ==
    [listen_address : {None, Some("127.0.0.1:8080")},
     proxy_destinations :
         {None} \cup {Some(v) : v \in BoundedSeq({"", "b:8080"}, MaxDest)},
     default_response : {None, Some(FILE_DEFAULT)}]

MainArgs ==
    [listen : {None} \cup {Some(l) : l \in ListenStrings},
     proxy : BoundedSeq({"", "http://a", "b:8080"}, MaxDest),
     default_response : {None, Some(CUSTOM_DEFAULT)},
     file : FileConfigs]

InitMain ==
    /\ InitState
    /\ args \in MainArgs
    /\ inbound = {}

NextMain == Main

MainSpec == InitMain /\ [][NextMain]_vars

\* Concurrent runs: every request of Requests is sent, each with a text
\* body and an origin-form target, to a server with one destination whose
\* upstream answers (503 with a text body), fails or stays silent.
ConcArgs ==
    [listen : {Some("127.0.0.1:8080")},
     proxy : {<<"http://a">>},
     default_response : {None},
     file : {NoConfig}]

ConcUris == {u \in InboundUris : ~IsSome(u.scheme)}

ConcBodies == {b \in InboundBodies : IsValidUtf8(b)}

ConcResponses == {up \in UpstreamResponses : up.status # 200}

InitConc ==
    /\ InitState
    /\ args \in ConcArgs
    /\ inbound = Requests

NextConc ==
    \/ Main
    \/ \E r \in Requests, uri \in ConcUris, body \in ConcBodies :
          ArriveRequest(r, uri, body)
    \/ \E r \in Requests : RequestBodyError(r)
    \/ \E r \in Requests : HandleRequest(r)
    \/ \E r \in Requests, up \in ConcResponses : UpstreamRespond(r, 1, up)
    \/ \E r \in Requests : UpstreamFail(r, 1)
    \/ \E r \in Requests : SelectAll(r)
    \/ \E r \in Requests : ResponseBodyBuffered(r)
    \/ \E r \in Requests : ResponseBodyError(r)
    \/ Tick

ConcSpec == InitConc /\ [][NextConc]_vars

\* The handler is scheduled whenever it can run and the timers fire; what
\* the clients and the upstreams do is left to them.
FairSpec ==
    /\ Spec
    /\ WF_vars(Main)
    /\ WF_vars(Tick)
    /\ \A r \in Requests : WF_vars(SelectAll(r))


\* ----------------------------------------------------------------- claims
\* The inbound body of r has been buffered and the handler has gone on.
Handled(r) ==
    \/ pc[r] \in {"select_all", "to_bytes_resp", "done", "panicked"}
    \/ pc[r] = "err" /\ IsSome(winner[r])

ValidInboundBody == <<195, 169>>
InvalidInboundBody == <<195, 40>>
MalformedDestinations == {"/nohost", "not a uri"}

\* The destination list main() starts from, before any filtering.
GivenDestinations ==
    IF args.proxy # <<>> THEN args.proxy
    ELSE IF IsSome(args.file.proxy_destinations)
         THEN Unwrap(args.file.proxy_destinations) ELSE <<>>

\* The default body the command line asks for.
GivenDefaultBody ==
    IF IsSome(args.default_response)
    THEN Unwrap(args.default_response) ELSE DEFAULT_SERVER_RESPONSE

DefaultResponse == [status |-> 200, headers |-> {}, body |-> GivenDefaultBody]

\* The attempts of r whose upstream has answered.
Succeeded(r) ==
    {i \in 1..Len(arrived[r]) : IsSome(arrived[r][i]) /\ Unwrap(arrived[r][i]).ok}

\* The attempts of r answered before select_all saw their timer elapse.
SucceededInTime(r) ==
    {i \in Succeeded(r) :
        \A k \in 1..Len(polled[r]) :
            polled[r][k] # [attempt |-> i, kind |-> "Err(Elapsed)"]}

UpstreamOf(r, i) == Unwrap(Unwrap(arrived[r][i]).resp)

NoSuccessPolled(r) ==
    \A k \in 1..Len(polled[r]) : polled[r][k].kind # "Ok(Ok)"

\* C1: every request the handler has finished with got exactly one response:
\* not zero (no panic or error return instead of a response), not two.
C1_ExactlyOneResponse ==
    \A r \in Requests : Finished(r) => Len(response[r]) = 1

\* C2: every request whose body has been received is eventually answered,
\* whatever the upstreams do, given that timers fire and the handler runs.
C2_EventuallyAnswered ==
    \A r \in Requests : Handled(r) ~> (Len(response[r]) = 1)

\* C3: with no destination configured, a request whose body is text is
\* answered with the default body and status 200, select_all is never
\* entered and no outbound request is issued.
C3_NoDestinationDefault ==
    (/\ mainpc = "serving"
     /\ \A k \in 1..Len(GivenDestinations) : GivenDestinations[k] = "")
    => \A r \in Requests :
          /\ sent[r] = <<>>
          /\ polled[r] = <<>>
          /\ startedAt[r] = None
          /\ (Handled(r) /\ Unwrap(req[r]).body = ValidInboundBody)
                => pc[r] = "done" /\ response[r] = <<DefaultResponse>>

C3_Witness ==
    /\ mainpc = "serving"
    /\ args.proxy = <<"">>
    /\ pc[1] = "done"
    /\ Unwrap(req[1]).body = ValidInboundBody
    /\ response[1] = <<DefaultResponse>>

\* C4: the response delivered for a winning attempt has the status, the
\* headers and the body of the upstream response, all three unmodified.
C4_WinnerUnmodified ==
    \A r \in Requests :
        (pc[r] = "done" /\ IsSome(winner[r]))
        => response[r] = << [status |-> Unwrap(winner[r]).status,
                             headers |-> Unwrap(winner[r]).headers,
                             body |-> Unwrap(winner[r]).body] >>

\* C5: when exactly one attempt is answered and every other attempt fails or
\* hangs, the finished request carries that attempt's response, wherever the
\* destination stands in the list.
C5_SingleSuccessDelivered ==
    \A r \in Requests :
        (pc[r] \in {"done", "panicked"} /\ Cardinality(SucceededInTime(r)) = 1)
        => \E i \in SucceededInTime(r) : response[r] = <<UpstreamOf(r, i)>>

\* C6: when every attempt has come back from select_all as a transport
\* failure or a time-out, the request is answered with the default body and
\* status 200, and no outbound request beyond one per destination was issued.
C6_AllFailedDefault ==
    \A r \in Requests :
        (/\ Len(sent[r]) >= 1
         /\ {polled[r][k].attempt : k \in 1..Len(polled[r])} = 1..Len(sent[r])
         /\ NoSuccessPolled(r))
        => /\ pc[r] = "done"
           /\ response[r] = <<DefaultResponse>>
           /\ Len(polled[r]) = Len(sent[r])
           /\ Len(sent[r]) = Len(Unwrap(config.proxy_destinations))

C6_Witness ==
    /\ pc[1] = "done"
    /\ Len(polled[1]) = 2
    /\ polled[1][1].kind = "Ok(Err)"
    /\ polled[1][2].kind = "Err(Elapsed)"
    /\ response[1] = <<DefaultResponse>>

\* C7: a race without success is answered within timeout_duration of its
\* start, however many destinations there are.
C7_LatencyBound ==
    \A r \in Requests :
        (pc[r] = "done" /\ IsSome(startedAt[r]) /\ NoSuccessPolled(r))
        => Unwrap(answeredAt[r]) - Unwrap(startedAt[r]) <= timeout_duration

C7_Witness ==
    /\ pc[1] = "done"
    /\ Len(polled[1]) = MaxDest
    /\ \A k \in 1..Len(polled[1]) : polled[1][k].kind = "Err(Elapsed)"
    /\ Unwrap(answeredAt[1]) - Unwrap(startedAt[1]) = timeout_duration

\* C8: an inbound body that is not valid UTF-8 is answered with the fixed
\* diagnostic response (status 200) and no outbound request is issued,
\* whatever destinations are configured.
C8_InvalidInboundBody ==
    \A r \in Requests :
        (Handled(r) /\ Unwrap(req[r]).body = InvalidInboundBody)
        => /\ pc[r] = "done"
           /\ response[r] = << [status |-> 200, headers |-> {},
                                body |-> INVALID_UTF8_BODY] >>
           /\ sent[r] = <<>>
           /\ polled[r] = <<>>

C8_Witness ==
    /\ pc[1] = "done"
    /\ Unwrap(req[1]).body = InvalidInboundBody
    /\ IsSome(config.proxy_destinations)
    /\ Len(response[1]) = 1

\* C9 (state part): a delivered upstream response is that of the first
\* success select_all handed back: it is the last result polled, no earlier
\* result was a success, and status and body are that attempt's.
FirstSuccessDelivered(r) ==
    (pc[r] = "done" /\ IsSome(winner[r]))
    => LET n == Len(polled[r]) IN
       /\ n >= 1
       /\ polled[r][n].kind = "Ok(Ok)"
       /\ \A k \in 1..(n - 1) : polled[r][k].kind # "Ok(Ok)"
       /\ Len(response[r]) = 1
       /\ response[r][1].status = UpstreamOf(r, polled[r][n].attempt).status
       /\ response[r][1].body = UpstreamOf(r, polled[r][n].attempt).body

\* C9: the response delivered is that of the first success observed, and
\* once it is delivered nothing that happens to the other attempts is
\* polled or changes or follows it.
C9_FirstSuccessWins ==
    [][\A r \in Requests :
          /\ FirstSuccessDelivered(r)'
          /\ Len(response[r]) >= 1
                => response'[r] = response[r] /\ polled'[r] = polled[r]]_vars

\* A late answer of an abandoned attempt: attempt 2 won, attempt 1 answered
\* afterwards with another response.
C9_Witness ==
    /\ pc[1] = "done"
    /\ Len(polled[1]) = 1
    /\ polled[1][1] = [attempt |-> 2, kind |-> "Ok(Ok)"]
    /\ Succeeded(1) = {1, 2}
    /\ UpstreamOf(1, 1) # UpstreamOf(1, 2)
    /\ response[1][1].body = UpstreamOf(1, 2).body

\* C10: a malformed destination only drops out of the race: the handler
\* does not panic, the well-formed destinations are attempted and the
\* finished request has its response.
C10_MalformedDestinationSkipped ==
    \A r \in Requests :
        (/\ Handled(r)
         /\ Unwrap(req[r]).body = ValidInboundBody
         /\ \E k \in 1..Len(GivenDestinations) :
                GivenDestinations[k] \in MalformedDestinations
         /\ pc[r] # "err")
        => /\ pc[r] # "panicked"
           /\ Finished(r) => Len(response[r]) = 1


\* C11: an attempt that comes back with an upstream response wins the race
\* whatever its status: select_all's result for an answered attempt is never
\* treated as a failure, the first such result ends the race with that
\* response as the winner, and the status delivered is the upstream's.
C11_AnyStatusWins ==
    \A r \in Requests :
        /\ \A k \in 1..Len(polled[r]) :
              LET i == polled[r][k].attempt IN
              /\ polled[r][k].kind = "Ok(Err)"
                    => IsSome(arrived[r][i]) /\ ~Unwrap(arrived[r][i]).ok
              /\ polled[r][k].kind = "Ok(Ok)"
                    => /\ k = Len(polled[r])
                       /\ ~Racing(r)
                       /\ winner[r] = Some(UpstreamOf(r, i))
        /\ (pc[r] = "done" /\ IsSome(winner[r]))
              => response[r][1].status = Unwrap(winner[r]).status

\* A 503 won although the other attempt answered 200 afterwards.
C11_Witness ==
    /\ pc[1] = "done"
    /\ polled[1] = <<[attempt |-> 1, kind |-> "Ok(Ok)"]>>
    /\ UpstreamOf(1, 1).status = 503
    /\ 2 \in Succeeded(1)
    /\ UpstreamOf(1, 2).status = 200
    /\ response[1][1].status = 503


\* The body of the winning response is not text (the one such body an
\* upstream of this model sends).
OutboundEncodingDefect(r) == IsSome(winner[r]) /\ Unwrap(winner[r]).body = <<195>>

\* C12: the error of one destination never reaches the caller.  Stated for
\* the requests whose attempts have all been built: such a request, once
\* finished, has its response (a winner's or the default one) unless the
\* winning body is not text; in particular it has not failed while other
\* attempts were still pending.
C12_DestinationErrorsContained ==
    \A r \in Requests :
        (Len(sent[r]) >= 1 /\ Finished(r) /\ ~OutboundEncodingDefect(r))
        => Len(response[r]) = 1

\* C13: every line logged while a request is handled carries the request's
\* correlation identifier.
C13_LogLinesTagged ==
    \A k \in 1..Len(log) :
        log[k].event \notin {"Starting server", "Server running"}
        => IsSome(log[k].id)


\* C14: the outbound request built for a destination has as URI the
\* destination's scheme and authority followed by the inbound path and
\* query and nothing else, and the inbound method, version, headers and body.
C14_OutboundRequestShape ==
    \A r \in Requests : \A i \in 1..Len(sent[r]) :
        LET proxy_uri == Unwrap(ParseUri(Unwrap(config.proxy_destinations)[i]))
            rq == Unwrap(req[r])
        IN  sent[r][i] =
              [method |-> rq.method,
               uri |-> << IF IsSome(proxy_uri.scheme)
                          THEN Unwrap(proxy_uri.scheme) ELSE "http",
                          "://", Unwrap(proxy_uri.authority),
                          rq.uri.path_and_query >>,
               version |-> rq.version,
               headers |-> rq.headers,
               body |-> rq.body]


PolledAttempts(r) == {polled[r][k].attempt : k \in 1..Len(polled[r])}

PendingAttempts(r) == {futures[r][k] : k \in 1..Len(futures[r])}

\* C15: a failure or time-out takes only its own attempt out of the pending
\* set: as long as no success was handed back and attempts remain, the race
\* goes on among exactly the attempts not yet handed back, and the default
\* response of the race is returned only after every attempt was handed
\* back without success.
C15_RaceContinues ==
    \A r \in Requests :
        LET n == Len(sent[r]) IN
        n >= 1 =>
          /\ Racing(r)
                => /\ NoSuccessPolled(r)
                   /\ PendingAttempts(r) = (1..n) \ PolledAttempts(r)
                   /\ Cardinality(PendingAttempts(r)) = Len(futures[r])
                   /\ PendingAttempts(r) # {}
                   /\ response[r] = <<>>
          /\ (NoSuccessPolled(r) /\ PolledAttempts(r) # 1..n) => Racing(r)
          /\ (pc[r] = "done" /\ ~IsSome(winner[r]))
                => /\ NoSuccessPolled(r)
                   /\ PolledAttempts(r) = 1..n
                   /\ Len(polled[r]) = n

\* Attempt 1 failed first and attempt 2 won afterwards.
C15_Witness ==
    /\ pc[1] = "done"
    /\ polled[1] = <<[attempt |-> 1, kind |-> "Ok(Err)"],
                     [attempt |-> 2, kind |-> "Ok(Ok)"]>>
    /\ response[1][1].body = UpstreamOf(1, 2).body


NonEmpty(v) == SelectSeq(v, LAMBDA d : d # "")

\* v can be obtained from w by leaving entries out.
RECURSIVE IsSubsequence(_, _)
IsSubsequence(v, w) ==
    IF v = <<>> THEN TRUE
    ELSE IF w = <<>> THEN FALSE
    ELSE IF Head(v) = Head(w) THEN IsSubsequence(Tail(v), Tail(w))
    ELSE IsSubsequence(v, Tail(w))

\* C16: the destinations the handlers use are the given ones in the given
\* order, without empty entries and without duplicates; None when nothing
\* is left.
C16_DestinationsFilteredDistinct ==
    mainpc = "serving" =>
        IF NonEmpty(GivenDestinations) = <<>>
        THEN config.proxy_destinations = None
        ELSE /\ IsSome(config.proxy_destinations)
             /\ LET v == Unwrap(config.proxy_destinations) IN
                /\ IsSubsequence(v, GivenDestinations)
                /\ {v[k] : k \in 1..Len(v)}
                      = {d \in {GivenDestinations[k] :
                                   k \in 1..Len(GivenDestinations)} : d # ""}
                /\ \A j, k \in 1..Len(v) : j # k => v[j] # v[k]

\* C18: each of the three settings is the command line's value when given,
\* else the configuration file's, else the built-in default.
C18_CommandLineThenFile ==
    mainpc = "serving" =>
        /\ config.listen_address =
              IF IsSome(args.listen) THEN args.listen
              ELSE args.file.listen_address
        /\ config.proxy_destinations =
              IF NonEmpty(GivenDestinations) = <<>> THEN None
              ELSE Some(NonEmpty(GivenDestinations))
        /\ config.default_response =
              IF IsSome(args.default_response) THEN args.default_response
              ELSE IF IsSome(args.file.default_response)
                   THEN args.file.default_response
                   ELSE Some(DEFAULT_SERVER_RESPONSE)


\* C17: when the winning body is not text the handling ends without any
\* response: once the body is buffered the handler has panicked, nothing is
\* delivered then or later, and no attempt is polled after the winner.
C17_UndecodableWinnerIsFatal ==
    \A r \in Requests :
        OutboundEncodingDefect(r)
        => /\ pc[r] \in {"to_bytes_resp", "err", "panicked"}
           /\ response[r] = <<>>
           /\ polled[r][Len(polled[r])].kind = "Ok(Ok)"
           /\ Finished(r) => futures[r] = <<>>

\* The handler panicked on the winner's body although attempt 2 had
\* answered with a text body.
C17_Witness ==
    /\ pc[1] = "panicked"
    /\ OutboundEncodingDefect(1)
    /\ polled[1] = <<[attempt |-> 1, kind |-> "Ok(Ok)"]>>
    /\ 2 \in Succeeded(1)
    /\ UpstreamOf(1, 2).body = <<65>>
    /\ response[1] = <<>>

\* Everything the handler keeps for request r.
RequestState(r) ==
    <<pc[r], req[r], sent[r], arrived[r], deadline[r], futures[r], polled[r],
      winner[r], response[r], startedAt[r], answeredAt[r]>>

\* Every result select_all handed to the handler of r is the outcome of r's
\* own attempt: an answer or a failure that came in for that attempt, or the
\* attempt's own timer, 30 seconds after r's race began.
OwnResults(r) ==
    \A k \in 1..Len(polled[r]) :
        LET i == polled[r][k].attempt
            kind == polled[r][k].kind
        IN
        /\ i \in 1..Len(arrived[r])
        /\ kind = "Ok(Ok)" => i \in Succeeded(r)
        /\ kind = "Ok(Err)" => IsSome(arrived[r][i]) /\ ~Unwrap(arrived[r][i]).ok
        /\ kind = "Err(Elapsed)" => now >= Unwrap(startedAt[r]) + 30

\* The response the handler of r owes, read from r's own request, the
\* configuration as given at start-up and r's own polled results.
OwnResponse(r) ==
    IF ~IsValidUtf8(Unwrap(req[r]).body)
    THEN [status |-> 200, headers |-> {}, body |-> INVALID_UTF8_BODY]
    ELSE IF GivenDestinations = <<>> \/ NoSuccessPolled(r)
    THEN DefaultResponse
    ELSE LET i == polled[r][Len(polled[r])].attempt IN
         [status |-> UpstreamOf(r, i).status, headers |-> {},
          body |-> UpstreamOf(r, i).body]

NoInterference ==
    /\ \A r \in Requests :
          /\ OwnResults(r)
          /\ pc[r] = "done" => response[r] = <<OwnResponse(r)>>
          /\ pc[r] = "done" /\ IsSome(startedAt[r]) /\ NoSuccessPolled(r)
               => Unwrap(answeredAt[r]) - Unwrap(startedAt[r]) <= 30
    /\ mainpc = "serving"
         => /\ config.proxy_destinations = Some(GivenDestinations)
            /\ config.default_response = Some(GivenDefaultBody)

\* C19: requests handled at the same time do not interfere.  Each result a
\* handler gets from its race is the outcome of one of its own attempts, the
\* response it returns is determined by its own request, the start-up
\* configuration and its own results, its race without a success ends within
\* 30 seconds of its own start, no step touches the state of two requests, and
\* no step of a handler changes the configuration.
C19_NoInterference ==
    [][/\ NoInterference'
       /\ \A r, q \in Requests :
             r # q /\ RequestState(r)' # RequestState(r)
             => RequestState(q)' = RequestState(q)
       /\ mainpc = "serving" => config' = config /\ mainpc' = mainpc]_vars

\* Request 2 came in while request 1 was racing; request 1 was answered by its
\* own upstream while request 2, whose attempt failed, got the default.
C19_Witness ==
    /\ pc[1] = "done" /\ pc[2] = "done"
    /\ Len(log) >= 5
    /\ log[3] = LogLine(Some(1), "info", "New Request")
    /\ log[4] = LogLine(Some(2), "info", "New Request")
    /\ log[5] = LogLine(Some(1), "info", "Got Response")
    /\ polled[1] = <<[attempt |-> 1, kind |-> "Ok(Ok)"]>>
    /\ polled[2] = <<[attempt |-> 1, kind |-> "Ok(Err)"]>>
    /\ response[1] = <<[status |-> 503, headers |-> {}, body |-> <<66>>]>>
    /\ response[2] = <<DefaultResponse>>

====
